---- MODULE Spec2Model ----
(***************************************************************************)
(* The NeoKunChat widget of src/index.tsx: the chat transcript, the send   *)
(* handler with its Primary (Google GenAI chat session) call and its       *)
(* Backup (OpenRouter) fallback, the feedback buttons, the open/close      *)
(* toggle and the timed greeting.                                          *)
(*                                                                         *)
(* A React event handler runs to its first await without interruption, and *)
(* the component is re-rendered before the next event is handled, so one   *)
(* action is one synchronous stretch of a handler: the values a handler    *)
(* closes over are the state at the moment it is invoked, and the part of  *)
(* handleSendMessage that runs after an await still sees the values of the *)
(* render in which it was invoked (kept in the invocation's record).       *)
(* setMessages(prev => ...) updaters are applied to the newest state.      *)
(*                                                                         *)
(* A text is a sequence of characters; the fixed texts of the program are  *)
(* abbreviated to one symbol each.                                         *)
(***************************************************************************)
EXTENDS Integers, Sequences, FiniteSets, TLC

\* Bounds of the model.
MaxSends == 2
MaxKeyErrors == 2
MaxFeedback == 3
MaxSendsFeedback == 1

VARIABLES
    apiKey,            \* process.env.API_KEY is set
    isOpen,            \* useState(false)
    messages,          \* useState([]): the transcript
    input,             \* useState(''): the text in the input box
    isTyping,          \* useState(false): the pending flag
    showNotification,  \* useState(false)
    chatClient,        \* useState(null): TRUE when a Primary chat session exists
    isBackupActive,    \* useState(false): the provider mode
    timer,             \* the greeting effect's setTimeout and the values it closed over
    calls,             \* the invocations of handleSendMessage that passed its checks
    nFeedback,         \* history: number of invocations of handleFeedback
    clicks,            \* history: the last invocation of handleFeedback (none: <<>>),
                       \* with its index, its type, the feedback the message had before
                       \* ("absent" when the index names no message) and whether the
                       \* handler threw
    lastOp,            \* history: how the last handler returned, for a send that returned
                       \* at one of its two checks ("other" for everything else)
    page               \* ThemeProvider and what it reads and writes: its theme state,
                       \* localStorage 'site-theme', the OS colour scheme, the dark
                       \* class of the document

vars == <<apiKey, isOpen, messages, input, isTyping, showNotification, chatClient,
          isBackupActive, timer, calls, nFeedback, clicks, lastOp, page>>

----------------------------------------------------------------------------
\* Texts

NEO_KUN_SYSTEM_PROMPT == <<"NEO_KUN_SYSTEM_PROMPT">>
GreetingText == <<"I can answer questions about Kunal instantly. Ask away.">>
KeyMissingText == <<"Error: API Key missing. Please check configuration.">>
GlitchText == <<"System glitch. Both primary and backup lines are unstable.">>
EmptyText == <<>>

\* What the user can leave in the input box.
Inputs == { <<" ">>, <<"p", " ">> }

\* String.prototype.trim
RECURSIVE TrimStart(_)
TrimStart(s) ==
    IF s = <<>> THEN s
    ELSE IF Head(s) = " " THEN TrimStart(Tail(s)) ELSE s

RECURSIVE TrimEnd(_)
TrimEnd(s) ==
    IF s = <<>> THEN s
    ELSE IF s[Len(s)] = " " THEN TrimEnd(SubSeq(s, 1, Len(s) - 1)) ELSE s

\* Mutant of Trim: the text is taken as it is.
NoTrim(s) == s

Trim(s) == TrimEnd(TrimStart(s))

\* An optional text (result.text, choices?.[0]?.message?.content).
NoText == [defined |-> FALSE, text |-> <<>>]
SomeText(t) == [defined |-> TRUE, text |-> t]

\* Mutant of OrEmpty: a placeholder text stands in for an absent text.
OrEmptyPlaceholder(x) == IF x.defined /\ x.text # <<>> THEN x.text ELSE <<"...">>

\* x || ""
OrEmpty(x) == IF x.defined /\ x.text # <<>> THEN x.text ELSE EmptyText

\* What result.text of a resolved Primary call can be.
PrimaryTexts == { NoText, SomeText(<<"pong">>) }

\* What the fetch of callOpenRouter can end in: a rejection (fetched = FALSE), a
\* response that is not ok, an ok response with or without content.
FetchOutcomes ==
    { [fetched |-> FALSE, ok |-> FALSE, content |-> NoText],
      [fetched |-> TRUE, ok |-> FALSE, content |-> NoText],
      [fetched |-> TRUE, ok |-> TRUE, content |-> NoText],
      [fetched |-> TRUE, ok |-> TRUE, content |-> SomeText(<<"bk">>)] }

----------------------------------------------------------------------------
\* Messages

\* What handleSendMessage and callOpenRouter read of a message: its role and text.
RoleText(ms) == [i \in 1..Len(ms) |-> [role |-> ms[i].role, text |-> ms[i].text]]

\* A message; turn is history: the invocation of handleSendMessage that appended
\* it (0: none).
UserMsg(t, turn) == [role |-> "user", text |-> t, feedback |-> "none", turn |-> turn]
ModelMsg(t, turn) == [role |-> "model", text |-> t, feedback |-> "none", turn |-> turn]

\* Mutant of AppendUser: the User message is not put into the transcript.
AppendUserMissing(prev, userMsg, turn) == prev

\* setMessages(prev => [...prev, { role: 'user', text: userMsg }])
AppendUser(prev, userMsg, turn) == Append(prev, UserMsg(userMsg, turn))

\* Mutant of AppendModel: the reply is appended to the messages of the render in
\* which the send was invoked: setMessages([...messages, { role: 'model', text }]).
AppendModelToClosure(prev, text, turn) ==
    IF turn \in 1..Len(calls)
    THEN Append([k \in 1..Len(calls[turn].closure) |->
                    [role |-> calls[turn].closure[k].role,
                     text |-> calls[turn].closure[k].text,
                     feedback |-> "none", turn |-> prev[k].turn]],
                ModelMsg(text, turn))
    ELSE Append(prev, ModelMsg(text, turn))

\* Mutant of AppendModel: the new message is put in front: [{...}, ...prev].
AppendModelFirst(prev, text, turn) == <<ModelMsg(text, turn)>> \o prev

\* setMessages(prev => [...prev, { role: 'model', text }])
AppendModel(prev, text, turn) == Append(prev, ModelMsg(text, turn))

\* The messages array of the request body of callOpenRouter.
OpenRouterMessages(history) ==
    <<[role |-> "system", content |-> NEO_KUN_SYSTEM_PROMPT]>> \o
    [i \in 1..Len(history) |->
        [role |-> IF history[i].role = "model" THEN "assistant" ELSE "user",
         content |-> history[i].text]]

\* const history = [...messages, { role: 'user', text: userMsg }], with the
\* messages of the render in which the handler was invoked.
BackupHistory(closureMessages, userMsg) ==
    Append(closureMessages, [role |-> "user", text |-> userMsg])

\* The greeting effect: re-run (the old timer cleared, a new one set) when isOpen
\* or messages.length changed.
GreetingEffect(tm, open2, len2) ==
    IF open2 # isOpen \/ len2 # Len(messages)
    THEN [armed |-> TRUE, isOpen |-> open2, len |-> len2]
    ELSE tm

----------------------------------------------------------------------------
\* The page before ThemeProvider is mounted. saved is localStorage 'site-theme'
\* ("none": no item), prefersDark the OS colour scheme, dark the class of
\* document.documentElement, listener the theme the registered onPrefChange
\* closed over ("none": not registered).
PageStart(defaultTheme, saved, prefersDark) ==
    [mounted |-> FALSE, defaultTheme |-> defaultTheme, theme |-> defaultTheme,
     saved |-> saved, prefersDark |-> prefersDark, dark |-> FALSE, listener |-> "none"]

\* NeoKunChat after construction.
ChatInit ==
    /\ apiKey \in BOOLEAN
    /\ isOpen = FALSE
    /\ messages = <<>>
    /\ input = <<>>
    /\ isTyping = FALSE
    /\ showNotification = FALSE
    /\ chatClient = FALSE
    /\ isBackupActive = FALSE
    /\ timer = [armed |-> TRUE, isOpen |-> FALSE, len |-> 0]
    /\ calls = <<>>
    /\ nFeedback = 0
    /\ clicks = <<>>
    /\ lastOp = "init"

\* The application: <ThemeProvider defaultTheme="system">, nothing saved.
Init ==
    /\ ChatInit
    /\ page = PageStart("system", "none", FALSE)

----------------------------------------------------------------------------
\* handleSendMessage

\* Mutant of UsePrimary: the mode is not looked at.
UsePrimaryIgnoringMode(currentChat, backupActive) == currentChat

\* Mutant of UsePrimary: the chat session is not looked at.
UsePrimaryNoClientCheck(currentChat, backupActive) == ~backupActive

\* if (currentChat && !isBackupActive)
UsePrimary(currentChat, backupActive) == currentChat /\ ~backupActive

\* The record of an invocation of handleSendMessage that passed its two checks.
\* closure is the messages array of the render in which it was invoked (the roles
\* and texts, which is all the handler reads of it); atPrimary and atBackup are the
\* transcript at the moment the call was issued, body is the message list of the
\* Backup request, reply the optional text the answering provider returned
\* (history fields), nPrimary and nBackup the number of calls it has issued to
\* each provider (history); hung says that the outstanding provider call will
\* never settle.
NewCall(userMsg, closureMessages) ==
    [userMsg |-> userMsg, closure |-> closureMessages, pc |-> "start",
     primaryCalled |-> FALSE, primaryRejected |-> FALSE, backupCalled |-> FALSE,
     atPrimary |-> <<>>, atBackup |-> <<>>, body |-> <<>>,
     outcome |-> "pending", reply |-> NoText, modeAtSend |-> isBackupActive,
     clientAtSend |-> FALSE, hung |-> FALSE, nPrimary |-> 0, nBackup |-> 0]

\* const result = await currentChat.sendMessage({ message: userMsg })
CallPrimary(c, transcript) ==
    [c EXCEPT !.pc = "awaitPrimary", !.primaryCalled = TRUE, !.atPrimary = RoleText(transcript),
              !.nPrimary = @ + 1]

\* The catch block up to its await: const history = [...messages, user];
\* await callOpenRouter(history)
CallBackup(c, transcript) ==
    [c EXCEPT !.pc = "awaitBackup", !.backupCalled = TRUE, !.atBackup = RoleText(transcript),
              !.body = OpenRouterMessages(BackupHistory(c.closure, c.userMsg)),
              !.nBackup = @ + 1]

\* if (!input.trim()) return;
SendBlank ==
    /\ isOpen
    /\ Trim(input) = <<>>
    /\ lastOp' = "send:blank"
    /\ UNCHANGED <<page, apiKey, isOpen, messages, input, isTyping, showNotification,
                   chatClient, isBackupActive, timer, calls, nFeedback, clicks>>

\* Mutant of SendNoKey: the pending flag is set before the credential check, and
\* the early return leaves it set.
SendNoKeyStuck ==
    /\ isOpen
    /\ Trim(input) # <<>>
    /\ ~apiKey
    /\ Len(messages) < MaxKeyErrors
    /\ messages' = Append(messages, ModelMsg(KeyMissingText, 0))
    /\ isTyping' = TRUE
    /\ timer' = GreetingEffect(timer, isOpen, Len(messages'))
    /\ lastOp' = "send:nokey"
    /\ UNCHANGED <<page, apiKey, isOpen, input, showNotification, chatClient,
                   isBackupActive, calls, nFeedback, clicks>>

\* Mutant of SendNoKey: the missing credential is not looked at, and the turn goes
\* to Backup.
SendNoKeyToBackup ==
    /\ isOpen
    /\ Trim(input) # <<>>
    /\ ~apiKey
    /\ Len(calls) < MaxSends
    /\ LET userMsg == input
           transcript == Append(messages, UserMsg(userMsg, Len(calls) + 1))
       IN  /\ input' = <<>>
           /\ messages' = transcript
           /\ isTyping' = TRUE
           /\ isBackupActive' = TRUE
           /\ calls' = Append(calls, CallBackup(NewCall(userMsg, RoleText(messages)), transcript))
           /\ timer' = GreetingEffect(timer, isOpen, Len(transcript))
    /\ lastOp' = "other"
    /\ UNCHANGED <<page, apiKey, isOpen, showNotification, chatClient, nFeedback, clicks>>

\* if (!process.env.API_KEY) { setMessages(... "Error: API Key missing ..."); return; }
SendNoKey ==
    /\ isOpen
    /\ Trim(input) # <<>>
    /\ ~apiKey
    /\ Len(messages) < MaxKeyErrors
    /\ messages' = AppendModel(messages, KeyMissingText, 0)
    /\ timer' = GreetingEffect(timer, isOpen, Len(messages'))
    /\ lastOp' = "send:nokey"
    /\ UNCHANGED <<page, apiKey, isOpen, input, isTyping, showNotification, chatClient,
                   isBackupActive, calls, nFeedback, clicks>>

\* The handler from const userMsg = input to its first await: the User message is
\* appended, the pending flag set, the chat session created if missing, and the
\* Primary call issued, or (no session, or Backup already active) the Backup call.
SendAccepted ==
    /\ isOpen
    /\ Trim(input) # <<>>
    /\ apiKey
    /\ Len(calls) < MaxSends
    /\ \E created \in BOOLEAN :
        /\ chatClient => created
        /\ LET userMsg == input
               id == Len(calls) + 1
               transcript == AppendUser(messages, userMsg, id)
               currentChat == IF chatClient THEN TRUE ELSE created
               c == [NewCall(userMsg, RoleText(messages)) EXCEPT !.clientAtSend = currentChat]
           IN  /\ input' = <<>>
               /\ messages' = transcript
               /\ isTyping' = TRUE
               /\ chatClient' = currentChat
               /\ IF UsePrimary(currentChat, isBackupActive)
                  THEN /\ calls' = Append(calls, CallPrimary(c, transcript))
                       /\ isBackupActive' = isBackupActive
                  ELSE /\ calls' = Append(calls, CallBackup(c, transcript))
                       /\ isBackupActive' = TRUE
               /\ timer' = GreetingEffect(timer, isOpen, Len(transcript))
    /\ lastOp' = "other"
    /\ UNCHANGED <<page, apiKey, isOpen, showNotification, nFeedback, clicks>>

handleSendMessage == SendBlank \/ SendNoKey \/ SendAccepted

\* Mutant of PrimaryResolve: an empty Primary answer is retried on both providers
\* at once instead of being appended.
PrimaryResolveRace(i) ==
    /\ calls[i].pc = "awaitPrimary"
    /\ ~calls[i].hung
    /\ \E r \in PrimaryTexts :
        IF r.defined
        THEN /\ messages' = Append(messages, ModelMsg(OrEmpty(r), i))
             /\ calls' = [calls EXCEPT ![i] = [@ EXCEPT !.pc = "done", !.outcome = "primary",
                                                        !.reply = r]]
             /\ isTyping' = FALSE
        ELSE /\ messages' = messages
             /\ calls' = [calls EXCEPT ![i] =
                             [CallBackup(@, messages) EXCEPT !.nPrimary = @ + 1]]
             /\ isTyping' = isTyping
    /\ timer' = GreetingEffect(timer, isOpen, Len(messages'))
    /\ lastOp' = "other"
    /\ UNCHANGED <<page, apiKey, isOpen, input, showNotification, chatClient,
                   isBackupActive, nFeedback, clicks>>

\* Mutant of PrimaryResolve: the success path returns without the finally block.
PrimaryResolveBusy(i) ==
    /\ calls[i].pc = "awaitPrimary"
    /\ ~calls[i].hung
    /\ \E r \in PrimaryTexts :
        /\ messages' = Append(messages, ModelMsg(OrEmpty(r), i))
        /\ calls' = [calls EXCEPT ![i] = [@ EXCEPT !.pc = "done", !.outcome = "primary",
                                                   !.reply = r]]
    /\ timer' = GreetingEffect(timer, isOpen, Len(messages'))
    /\ lastOp' = "other"
    /\ UNCHANGED <<page, apiKey, isOpen, input, isTyping, showNotification, chatClient,
                   isBackupActive, nFeedback, clicks>>

\* The Primary call resolves: setMessages(prev => [...prev, { role: 'model',
\* text: response || "" }]); finally setIsTyping(false).
PrimaryResolve(i) ==
    /\ calls[i].pc = "awaitPrimary"
    /\ ~calls[i].hung
    /\ \E r \in PrimaryTexts :
        /\ messages' = AppendModel(messages, OrEmpty(r), i)
        /\ calls' = [calls EXCEPT ![i] = [@ EXCEPT !.pc = "done", !.outcome = "primary",
                                                   !.reply = r]]
    /\ isTyping' = FALSE
    /\ timer' = GreetingEffect(timer, isOpen, Len(messages'))
    /\ lastOp' = "other"
    /\ UNCHANGED <<page, apiKey, isOpen, input, showNotification, chatClient,
                   isBackupActive, nFeedback, clicks>>

\* Mutant of PrimaryReject: the catch block reports the Primary failure in the
\* transcript before it calls Backup.
PrimaryRejectSurfaced(i) ==
    /\ calls[i].pc = "awaitPrimary"
    /\ ~calls[i].hung
    /\ isBackupActive' = TRUE
    /\ messages' = Append(messages, ModelMsg(GlitchText, i))
    /\ calls' = [calls EXCEPT ![i] = CallBackup([@ EXCEPT !.primaryRejected = TRUE], messages')]
    /\ timer' = GreetingEffect(timer, isOpen, Len(messages'))
    /\ lastOp' = "other"
    /\ UNCHANGED <<page, apiKey, isOpen, input, isTyping, showNotification,
                   chatClient, nFeedback, clicks>>

\* The Primary call rejects: the catch block sets isBackupActive and calls Backup.
PrimaryReject(i) ==
    /\ calls[i].pc = "awaitPrimary"
    /\ ~calls[i].hung
    /\ isBackupActive' = TRUE
    /\ calls' = [calls EXCEPT ![i] = CallBackup([@ EXCEPT !.primaryRejected = TRUE], messages)]
    /\ lastOp' = "other"
    /\ UNCHANGED <<page, apiKey, isOpen, messages, input, isTyping, showNotification,
                   chatClient, timer, nFeedback, clicks>>

\* callOpenRouter returns data.choices?.[0]?.message?.content || "" when the fetch
\* resolved with an ok response, and throws otherwise.
BackupSucceeds(o) == o.fetched /\ o.ok

\* Mutant of BackupSettle: a failed Backup call is logged and nothing is appended.
BackupSettleSilent(i) ==
    /\ calls[i].pc = "awaitBackup"
    /\ ~calls[i].hung
    /\ \E o \in FetchOutcomes :
        IF o.fetched /\ o.ok
        THEN /\ messages' = Append(messages, ModelMsg(OrEmpty(o.content), i))
             /\ calls' = [calls EXCEPT ![i] = [@ EXCEPT !.pc = "done", !.outcome = "backup",
                                                        !.reply = o.content]]
        ELSE /\ messages' = messages
             /\ calls' = [calls EXCEPT ![i] = [@ EXCEPT !.pc = "done", !.outcome = "glitch"]]
    /\ isTyping' = FALSE
    /\ timer' = GreetingEffect(timer, isOpen, Len(messages'))
    /\ lastOp' = "other"
    /\ UNCHANGED <<page, apiKey, isOpen, input, showNotification, chatClient,
                   isBackupActive, nFeedback, clicks>>

\* The Backup call settles: its text is appended, or the "System glitch" message;
\* finally setIsTyping(false).
BackupSettle(i) ==
    /\ calls[i].pc = "awaitBackup"
    /\ ~calls[i].hung
    /\ \E o \in FetchOutcomes :
        IF BackupSucceeds(o)
        THEN /\ messages' = AppendModel(messages, OrEmpty(o.content), i)
             /\ calls' = [calls EXCEPT ![i] = [@ EXCEPT !.pc = "done", !.outcome = "backup",
                                                        !.reply = o.content]]
        ELSE /\ messages' = AppendModel(messages, GlitchText, i)
             /\ calls' = [calls EXCEPT ![i] = [@ EXCEPT !.pc = "done", !.outcome = "glitch"]]
    /\ isTyping' = FALSE
    /\ timer' = GreetingEffect(timer, isOpen, Len(messages'))
    /\ lastOp' = "other"
    /\ UNCHANGED <<page, apiKey, isOpen, input, showNotification, chatClient,
                   isBackupActive, nFeedback, clicks>>

----------------------------------------------------------------------------
\* The other handlers of NeoKunChat

\* onChange of the input box (rendered while the chat is open)
onChange(t) ==
    /\ isOpen
    /\ input' = t
    /\ lastOp' = "other"
    /\ UNCHANGED <<page, apiKey, isOpen, messages, isTyping, showNotification, chatClient,
                   isBackupActive, timer, calls, nFeedback, clicks>>

\* Mutant of SetFeedback: the value is stored on every Assistant message.
SetFeedbackAll(prev, index, type) ==
    [i \in 1..Len(prev) |->
        IF prev[i].role = "model"
        THEN [prev[i] EXCEPT !.feedback = IF prev[index].feedback = type THEN "none" ELSE type]
        ELSE prev[i]]

\* Mutant of SetFeedback: the chosen value is stored, whatever was there.
SetFeedbackOverwrite(prev, index, type) ==
    [i \in 1..Len(prev) |->
        IF i = index THEN [prev[i] EXCEPT !.feedback = type] ELSE prev[i]]

\* prev.map((msg, i) => i === index ? {...msg, feedback: msg.feedback === type ?
\* undefined : type} : msg); indices count from 1 here.
SetFeedback(prev, index, type) ==
    [i \in 1..Len(prev) |->
        IF i = index
        THEN [prev[i] EXCEPT !.feedback = IF prev[i].feedback = type THEN "none" ELSE type]
        ELSE prev[i]]

\* The record of an invocation of handleFeedback (history). The handler has no
\* throw statement and its updater reads only msg.feedback of entries that exist.
Click(prev, index, type) ==
    [index |-> index, type |-> type, threw |-> FALSE,
     before |-> IF index \in 1..Len(prev) THEN prev[index].feedback ELSE "absent"]

\* handleFeedback(index, type), whatever the index: the updater is applied, and the
\* handler returns nothing.
handleFeedbackAt(index, type) ==
    /\ nFeedback < MaxFeedback
    /\ messages' = SetFeedback(messages, index, type)
    /\ nFeedback' = nFeedback + 1
    /\ clicks' = <<Click(messages, index, type)>>
    /\ lastOp' = "other"
    /\ UNCHANGED <<page, apiKey, isOpen, input, isTyping, showNotification, chatClient,
                   isBackupActive, timer, calls>>

\* A click on a feedback button: the buttons are rendered under model messages.
handleFeedback(index, type) ==
    /\ isOpen
    /\ index \in 1..Len(messages)
    /\ messages[index].role = "model"
    /\ handleFeedbackAt(index, type)

\* toggleChat, with initChat on the first opening
toggleChat ==
    /\ \E created \in BOOLEAN :
        chatClient' = IF ~isOpen /\ ~chatClient /\ apiKey THEN created ELSE chatClient
    /\ isOpen' = ~isOpen
    /\ showNotification' = FALSE
    /\ timer' = GreetingEffect(timer, isOpen', Len(messages))
    /\ lastOp' = "other"
    /\ UNCHANGED <<page, apiKey, messages, input, isTyping, isBackupActive, calls,
                   nFeedback, clicks>>

\* Mutant of GreetingTimer: the callback does not look at isOpen.
GreetingTimerWhenOpen ==
    /\ timer.armed
    /\ showNotification' = TRUE
    /\ IF timer.len = 0
       THEN messages' = <<ModelMsg(GreetingText, 0)>>
       ELSE UNCHANGED messages
    /\ timer' = GreetingEffect([timer EXCEPT !.armed = FALSE], isOpen, Len(messages'))
    /\ lastOp' = "other"
    /\ UNCHANGED <<page, apiKey, isOpen, input, isTyping, chatClient, isBackupActive, calls,
                   nFeedback, clicks>>

\* Mutant of GreetingTimer: the greeting is set whatever the transcript holds.
GreetingTimerAlways ==
    /\ timer.armed
    /\ IF ~timer.isOpen
       THEN /\ showNotification' = TRUE
            /\ messages' = <<ModelMsg(GreetingText, 0)>>
       ELSE UNCHANGED <<showNotification, messages>>
    /\ timer' = GreetingEffect([timer EXCEPT !.armed = FALSE], isOpen, Len(messages'))
    /\ lastOp' = "other"
    /\ UNCHANGED <<page, apiKey, isOpen, input, isTyping, chatClient, isBackupActive, calls,
                   nFeedback, clicks>>

\* The greeting timer fires, with the isOpen and messages.length of its render.
GreetingTimer ==
    /\ timer.armed
    /\ IF ~timer.isOpen
       THEN /\ showNotification' = TRUE
            /\ IF timer.len = 0
               THEN messages' = <<ModelMsg(GreetingText, 0)>>
               ELSE UNCHANGED messages
       ELSE UNCHANGED <<showNotification, messages>>
    /\ timer' = GreetingEffect([timer EXCEPT !.armed = FALSE], isOpen, Len(messages'))
    /\ lastOp' = "other"
    /\ UNCHANGED <<page, apiKey, isOpen, input, isTyping, chatClient, isBackupActive, calls,
                   nFeedback, clicks>>

\* The notification bubble's dismiss button
DismissNotification ==
    /\ showNotification
    /\ ~isOpen
    /\ showNotification' = FALSE
    /\ lastOp' = "other"
    /\ UNCHANGED <<page, apiKey, isOpen, messages, input, isTyping, chatClient,
                   isBackupActive, timer, calls, nFeedback, clicks>>

----------------------------------------------------------------------------
Next ==
    \/ handleSendMessage
    \/ \E i \in 1..Len(calls) : PrimaryResolve(i)
    \/ \E i \in 1..Len(calls) : PrimaryReject(i)
    \/ \E i \in 1..Len(calls) : BackupSettle(i)
    \/ \E t \in Inputs : onChange(t)
    \/ toggleChat
    \/ GreetingTimer
    \/ DismissNotification

Spec == Init /\ [][Next]_vars

\* An outstanding provider call whose promise never settles: currentChat.sendMessage
\* and the fetch of callOpenRouter are awaited without a timeout or an abort signal.
ProviderHangs(i) ==
    /\ calls[i].pc \in {"awaitPrimary", "awaitBackup"}
    /\ ~calls[i].hung
    /\ calls' = [calls EXCEPT ![i].hung = TRUE]
    /\ lastOp' = "other"
    /\ UNCHANGED <<page, apiKey, isOpen, messages, input, isTyping, showNotification,
                   chatClient, isBackupActive, timer, nFeedback, clicks>>

\* The continuation of invocation i after its await.
Settle(i) ==
    /\ i \in 1..Len(calls)
    /\ PrimaryResolve(i) \/ PrimaryReject(i) \/ BackupSettle(i)

NextHang == Next \/ \E i \in 1..Len(calls) : ProviderHangs(i)

\* The widget with providers that may never answer. A promise that settles has its
\* continuation run by the event loop, and the greeting timer fires.
SpecHang ==
    /\ Init
    /\ [][NextHang]_vars
    /\ \A i \in 1..MaxSends : WF_vars(Settle(i))
    /\ WF_vars(GreetingTimer)

\* The widget with its feedback buttons in use as well, for sessions of at most
\* MaxSendsFeedback accepted sends.
Feedback == \E index \in 1..Len(messages), type \in {"up", "down"} : handleFeedback(index, type)

NextFeedback == (Next /\ Len(calls') <= MaxSendsFeedback) \/ Feedback

SpecFeedback == Init /\ [][NextFeedback]_vars

\* The widget with its feedback buttons pressed only while a provider call is
\* outstanding.
FeedbackWhilePending ==
    /\ \E i \in 1..Len(calls) : calls[i].pc \in {"awaitPrimary", "awaitBackup"}
    /\ Feedback

NextFeedbackPending == (Next /\ Len(calls') <= MaxSendsFeedback) \/ FeedbackWhilePending

SpecFeedbackPending == Init /\ [][NextFeedbackPending]_vars

\* handleFeedback invoked by a caller that passes any index: the positions of the
\* transcript, the one before the first and the one after the last.
FeedbackCall ==
    \E index \in 0..(Len(messages) + 1), type \in {"up", "down"} :
        handleFeedbackAt(index, type)

NextCaller == (Next /\ Len(calls') <= MaxSendsFeedback) \/ FeedbackCall

SpecCaller == Init /\ [][NextCaller]_vars

----------------------------------------------------------------------------
\* The single-provider NeoKunChat of src/unnamed/part_000. Its state, its blank
\* and credential checks, its toggle, its greeting effect and its input box have
\* the same text as those of src/index.tsx, and SendBlank, SendNoKey, onChange,
\* toggleChat, GreetingTimer and DismissNotification stand for them; it has no
\* provider mode and no feedback (isBackupActive, nFeedback and clicks stay as
\* Init sets them). Its handleSendMessage differs.

ConnectionFailedText == <<"Connection failed. Please refresh.">>
SingleGlitchText == <<"System glitch. My connection is unstable right now.">>

\* history: messages.map(m => ({ role: m.role, parts: [{ text: m.text }] })), with
\* the messages of the render in which the handler was invoked.
RetryHistory(closureMessages) ==
    [k \in 1..Len(closureMessages) |->
        [role |-> closureMessages[k].role, parts |-> <<closureMessages[k].text>>]]

\* The record of an invocation of the handler that passed its two checks. nCalls
\* counts its sendMessage calls, nSessions the chat sessions it created after its
\* first call failed, seed is the history the last of them was created with,
\* attempts the number of times the catch block was entered (history fields).
NewSingleCall(userMsg, closureMessages) ==
    [userMsg |-> userMsg, closure |-> closureMessages, pc |-> "start",
     outcome |-> "pending", reply |-> NoText, nCalls |-> 0, attempts |-> 0,
     nSessions |-> 0, seed |-> <<>>]

\* The handler from const userMsg = input to its first await, or to the return
\* after a failed construction of the chat session.
SingleSendAccepted ==
    /\ isOpen
    /\ Trim(input) # <<>>
    /\ apiKey
    /\ Len(calls) < MaxSends
    /\ \E created \in BOOLEAN :
        /\ chatClient => created
        /\ LET userMsg == input
               id == Len(calls) + 1
               transcript == AppendUser(messages, userMsg, id)
               c == NewSingleCall(userMsg, RoleText(messages))
           IN  /\ input' = <<>>
               /\ IF created
                  THEN /\ messages' = transcript
                       /\ isTyping' = TRUE
                       /\ chatClient' = TRUE
                       /\ calls' = Append(calls, [c EXCEPT !.pc = "awaitFirst", !.nCalls = 1])
                  ELSE /\ messages' = AppendModel(transcript, ConnectionFailedText, id)
                       /\ isTyping' = FALSE
                       /\ chatClient' = chatClient
                       /\ calls' = Append(calls, [c EXCEPT !.pc = "done",
                                                           !.outcome = "construction"])
               /\ timer' = GreetingEffect(timer, isOpen, Len(messages'))
    /\ lastOp' = "other"
    /\ UNCHANGED <<page, apiKey, isOpen, showNotification, isBackupActive, nFeedback, clicks>>

SinglehandleSendMessage == SendBlank \/ SendNoKey \/ SingleSendAccepted

\* The first call resolves: the text is appended; finally setIsTyping(false).
SingleFirstResolve(i) ==
    /\ calls[i].pc = "awaitFirst"
    /\ \E r \in PrimaryTexts :
        /\ messages' = AppendModel(messages, OrEmpty(r), i)
        /\ calls' = [calls EXCEPT ![i] = [@ EXCEPT !.pc = "done", !.outcome = "first",
                                                   !.reply = r]]
    /\ isTyping' = FALSE
    /\ timer' = GreetingEffect(timer, isOpen, Len(messages'))
    /\ lastOp' = "other"
    /\ UNCHANGED <<page, apiKey, isOpen, input, showNotification, chatClient,
                   isBackupActive, nFeedback, clicks>>

\* Mutant of SingleFirstReject: the retry loops, the catch block calling the
\* handler's body again on every failure.
SingleFirstRejectAgain(i) ==
    /\ calls[i].pc \in {"awaitFirst", "awaitRetry"}
    /\ calls[i].nCalls < 3
    /\ chatClient' = TRUE
    /\ calls' = [calls EXCEPT ![i] = [@ EXCEPT !.pc = "awaitRetry",
                                               !.attempts = @ + 1,
                                               !.nCalls = @ + 1,
                                               !.nSessions = @ + 1,
                                               !.seed = RetryHistory(calls[i].closure)]]
    /\ lastOp' = "other"
    /\ UNCHANGED <<page, apiKey, isOpen, messages, input, isTyping, showNotification,
                   isBackupActive, timer, nFeedback, clicks>>

\* The first call rejects: the catch block creates a chat session with the
\* history and calls it, or, the creation failing, appends the "System glitch"
\* message; finally setIsTyping(false).
SingleFirstReject(i) ==
    /\ calls[i].pc = "awaitFirst"
    /\ \E created \in BOOLEAN :
        IF created
        THEN /\ chatClient' = TRUE
             /\ calls' = [calls EXCEPT ![i] = [@ EXCEPT !.pc = "awaitRetry",
                                                        !.attempts = @ + 1,
                                                        !.nCalls = @ + 1,
                                                        !.nSessions = @ + 1,
                                                        !.seed = RetryHistory(calls[i].closure)]]
             /\ UNCHANGED <<messages, isTyping, timer>>
        ELSE /\ messages' = AppendModel(messages, SingleGlitchText, i)
             /\ isTyping' = FALSE
             /\ calls' = [calls EXCEPT ![i] = [@ EXCEPT !.pc = "done", !.outcome = "glitch",
                                                        !.attempts = @ + 1]]
             /\ timer' = GreetingEffect(timer, isOpen, Len(messages'))
             /\ UNCHANGED chatClient
    /\ lastOp' = "other"
    /\ UNCHANGED <<page, apiKey, isOpen, input, showNotification, isBackupActive,
                   nFeedback, clicks>>

\* The call on the new session settles: its text is appended, or the "System
\* glitch" message; finally setIsTyping(false).
SingleRetrySettle(i) ==
    /\ calls[i].pc = "awaitRetry"
    /\ \/ \E r \in PrimaryTexts :
            /\ messages' = AppendModel(messages, OrEmpty(r), i)
            /\ calls' = [calls EXCEPT ![i] = [@ EXCEPT !.pc = "done", !.outcome = "retry",
                                                       !.reply = r]]
       \/ /\ messages' = AppendModel(messages, SingleGlitchText, i)
          /\ calls' = [calls EXCEPT ![i] = [@ EXCEPT !.pc = "done", !.outcome = "glitch"]]
    /\ isTyping' = FALSE
    /\ timer' = GreetingEffect(timer, isOpen, Len(messages'))
    /\ lastOp' = "other"
    /\ UNCHANGED <<page, apiKey, isOpen, input, showNotification, chatClient,
                   isBackupActive, nFeedback, clicks>>

NextSingle ==
    \/ SinglehandleSendMessage
    \/ \E i \in 1..Len(calls) : SingleFirstResolve(i)
    \/ \E i \in 1..Len(calls) : SingleFirstReject(i)
    \/ \E i \in 1..Len(calls) : SingleRetrySettle(i)
    \/ \E t \in Inputs : onChange(t)
    \/ toggleChat
    \/ GreetingTimer
    \/ DismissNotification

SpecSingle == Init /\ [][NextSingle]_vars

----------------------------------------------------------------------------

\* ThemeProvider

Themes == {"light", "dark", "system"}

\* theme === 'system' ? (matchMedia(...).matches ? 'dark' : 'light') : theme
Effective(theme, prefersDark) ==
    IF theme = "system" THEN (IF prefersDark THEN "dark" ELSE "light") ELSE theme

\* The theme the first effect sets: the saved one, or for defaultTheme 'system'
\* the OS colour scheme; otherwise the state keeps defaultTheme.
InitialTheme(pg) ==
    IF pg.saved # "none" THEN pg.saved
    ELSE IF pg.defaultTheme = "system" THEN (IF pg.prefersDark THEN "dark" ELSE "light")
    ELSE pg.defaultTheme

\* The second effect for a render with this theme: the class is toggled and the
\* theme stored; localStorage.setItem may throw, which is ignored.
SyncTheme(pg, theme, stored) ==
    [pg EXCEPT !.dark = (Effective(theme, pg.prefersDark) = "dark"),
               !.saved = IF stored THEN theme ELSE @]

\* ThemeProvider is mounted: the first render has theme = defaultTheme; its two
\* effects run (the first registers onPrefChange, which closes over the theme of
\* this render), and when the first effect changed the theme the component is
\* rendered again and the second effect runs for the new theme.
MountTheme ==
    /\ ~page.mounted
    /\ \E stored1 \in BOOLEAN, stored2 \in BOOLEAN :
        LET first == [page EXCEPT !.mounted = TRUE, !.theme = page.defaultTheme,
                                  !.listener = page.defaultTheme]
            t == InitialTheme(page)
            synced == SyncTheme(first, page.defaultTheme, stored1)
        IN  page' = IF t = page.defaultTheme
                    THEN synced
                    ELSE SyncTheme([synced EXCEPT !.theme = t], t, stored2)
    /\ UNCHANGED <<apiKey, isOpen, messages, input, isTyping, showNotification, chatClient,
                   isBackupActive, timer, calls, nFeedback, clicks, lastOp>>

\* setTheme(t): setThemeState(t); a changed theme renders again and runs the
\* second effect.
setTheme(t) ==
    /\ page.mounted
    /\ \E stored \in BOOLEAN :
        page' = IF t = page.theme THEN page
                ELSE SyncTheme([page EXCEPT !.theme = t], t, stored)
    /\ UNCHANGED <<apiKey, isOpen, messages, input, isTyping, showNotification, chatClient,
                   isBackupActive, timer, calls, nFeedback, clicks, lastOp>>

\* The OS colour scheme changes; a registered onPrefChange runs with e.matches.
onPrefChange ==
    /\ LET matches == ~page.prefersDark
           changed == [page EXCEPT !.prefersDark = matches]
       IN  page' = IF page.listener = "system"
                   THEN [changed EXCEPT !.dark = matches]
                   ELSE changed
    /\ UNCHANGED <<apiKey, isOpen, messages, input, isTyping, showNotification, chatClient,
                   isBackupActive, timer, calls, nFeedback, clicks, lastOp>>

\* The page is left: the cleanup removes the listener; localStorage stays. The
\* next page load starts from the document without the class.
UnmountTheme ==
    /\ page.mounted
    /\ page' = PageStart(page.defaultTheme, page.saved, page.prefersDark)
    /\ UNCHANGED <<apiKey, isOpen, messages, input, isTyping, showNotification, chatClient,
                   isBackupActive, timer, calls, nFeedback, clicks, lastOp>>

\* ThemeProvider with any defaultTheme, any saved theme and either colour scheme.
InitTheme ==
    /\ ChatInit
    /\ apiKey
    /\ \E d \in Themes, s \in Themes \cup {"none"}, p \in BOOLEAN : page = PageStart(d, s, p)

NextTheme ==
    \/ MountTheme
    \/ \E t \in Themes : setTheme(t)
    \/ onPrefChange
    \/ UnmountTheme

SpecTheme == InitTheme /\ [][NextTheme]_vars

----------------------------------------------------------------------------
\* Vocabulary of the properties

\* Invocation i has a provider call outstanding.
Pending(i) == calls[i].pc \in {"awaitPrimary", "awaitBackup"}

Outstanding == {i \in 1..Len(calls) : Pending(i)}

\* The roles and texts of the transcript entries that invocation i appended, in
\* transcript order.
RECURSIVE EntriesFrom(_, _)
EntriesFrom(i, k) ==
    IF k > Len(messages) THEN <<>>
    ELSE (IF messages[k].turn = i
          THEN <<[role |-> messages[k].role, text |-> messages[k].text]>>
          ELSE <<>>) \o EntriesFrom(i, k + 1)

TurnEntries(i) == EntriesFrom(i, 1)

UserEntry(i) == [role |-> "user", text |-> calls[i].userMsg]
ModelEntry(t) == [role |-> "model", text |-> t]

\* The number of Primary completion calls issued so far.
NumPrimaryCalls == Cardinality({i \in 1..Len(calls) : calls[i].primaryCalled})

\* s is a prefix of t.
IsPrefix(s, t) == Len(s) <= Len(t) /\ \A k \in 1..Len(s) : s[k] = t[k]

----------------------------------------------------------------------------
\* C1 - Sticky failover: once the Primary call of some send has failed, a step
\* issues no further Primary call, and every send accepted from then on goes
\* directly to Backup.
C1_StickyFailover ==
    [][(\E i \in 1..Len(calls) : calls[i].primaryRejected) =>
          /\ NumPrimaryCalls' = NumPrimaryCalls
          /\ \A j \in (Len(calls) + 1)..Len(calls') :
                /\ ~calls'[j].primaryCalled
                /\ calls'[j].backupCalled
                /\ calls'[j].pc = "awaitBackup"]_vars

\* A send issued after another send's Primary failure has been answered.
C1_Witness ==
    \E i \in 1..Len(calls), j \in 1..Len(calls) :
        /\ i < j
        /\ calls[i].primaryRejected
        /\ calls[j].modeAtSend
        /\ calls[j].pc = "done"
        /\ NumPrimaryCalls = 1

C3_DoubleFailure ==
    \A i \in 1..Len(calls) :
        /\ calls[i].outcome = "glitch" =>
              TurnEntries(i) = <<UserEntry(i), ModelEntry(GlitchText)>>
        /\ Pending(i) => TurnEntries(i) = <<UserEntry(i)>>

\* A Primary rejection followed by a Backup failure in the same turn.
C3_Witness ==
    \E i \in 1..Len(calls) :
        /\ calls[i].primaryRejected
        /\ calls[i].outcome = "glitch"
        /\ Len(TurnEntries(i)) = 2

\* C4 - At most one completion request is outstanding for the session.
C4_AtMostOneOutstanding == Cardinality(Outstanding) <= 1

\* C5 - The entries of two sends are not interleaved: once both have resolved,
\* every entry of the earlier send (its User message and its Assistant reply)
\* precedes every entry of the later send.
C5_NoInterleaving ==
    \A i \in 1..Len(calls), j \in 1..Len(calls) :
        (i < j /\ calls[i].pc = "done" /\ calls[j].pc = "done") =>
            \A a \in 1..Len(messages), b \in 1..Len(messages) :
                (messages[a].turn = i /\ messages[b].turn = j) => a < b

\* The text appended for an optional provider text.
TextOf(reply) == IF reply.defined THEN reply.text ELSE <<>>

\* What invocation i has appended: its User message while a call of it is
\* outstanding, its User message and one Assistant message once it has resolved.
TurnShape(i) ==
    IF Pending(i)
    THEN TurnEntries(i) = <<UserEntry(i)>>
    ELSE /\ Len(TurnEntries(i)) = 2
         /\ TurnEntries(i)[1] = UserEntry(i)
         /\ TurnEntries(i)[2].role = "model"

C7_ModeOnlyOnPendingFailure ==
    /\ ~isBackupActive
    /\ [][isBackupActive' # isBackupActive =>
             /\ ~isBackupActive
             /\ isBackupActive'
             /\ isTyping'
             /\ \E i \in 1..Len(calls') :
                   /\ calls'[i].backupCalled
                   /\ i > Len(calls) \/ ~calls[i].backupCalled
                   /\ calls'[i].primaryRejected \/ ~calls'[i].clientAtSend]_vars

C9_RecoveredFailure ==
    \A i \in 1..Len(calls) :
        calls[i].primaryRejected =>
            /\ isBackupActive
            /\ calls[i].backupCalled
            /\ calls[i].pc = "awaitBackup" => TurnEntries(i) = <<UserEntry(i)>>
            /\ calls[i].outcome = "backup" =>
                  /\ TurnEntries(i) = <<UserEntry(i), ModelEntry(TextOf(calls[i].reply))>>
                  /\ TextOf(calls[i].reply) # GlitchText

\* Primary rejected and Backup answered with a text, in a session that was in
\* Primary mode when the send was issued.
C9_Witness ==
    \E i \in 1..Len(calls) :
        /\ calls[i].primaryRejected
        /\ ~calls[i].modeAtSend
        /\ calls[i].outcome = "backup"
        /\ calls[i].reply.defined

\* C10 - Every Backup call carries the system instruction first and then the
\* whole transcript as it stands when the call is issued, in order, User as
\* "user" and Assistant as "assistant", ending with the User message of the turn.
C10_BackupCarriesTranscript ==
    \A i \in 1..Len(calls) :
        calls[i].backupCalled =>
            LET body == calls[i].body
                now == calls[i].atBackup
            IN  /\ Len(body) = Len(now) + 1
                /\ body[1] = [role |-> "system", content |-> NEO_KUN_SYSTEM_PROMPT]
                /\ \A k \in 1..Len(now) :
                      /\ body[k + 1].content = now[k].text
                      /\ body[k + 1].role =
                            (IF now[k].role = "user" THEN "user" ELSE "assistant")
                /\ body[Len(body)] = [role |-> "user", content |-> calls[i].userMsg]

\* The Assistant message at position k carries what the provider call of its turn
\* returned (nothing, when the provider returned no text), or is the one message
\* of a turn in which Backup failed.
ProviderOrGlitch(k) ==
    LET i == messages[k].turn IN
    /\ i \in 1..Len(calls)
    /\ calls[i].pc = "done"
    /\ calls[i].outcome \in {"primary", "backup"} =>
          messages[k].text = TextOf(calls[i].reply)
    /\ calls[i].outcome = "glitch" => messages[k].text = GlitchText
    /\ calls[i].outcome \in {"primary", "backup", "glitch"}

C12_PendingClearedOnReturn ==
    /\ [](Outstanding = {} => ~isTyping)
    /\ [][\A i \in 1..Len(calls) :
             (calls[i].pc # "done" /\ calls'[i].pc = "done") =>
                 /\ calls'[i].outcome \in {"primary", "backup", "glitch"}
                 /\ ~isTyping']_vars

\* One send answered by Primary, a later one ended by a double failure, and the
\* session idle.
C12_Witness ==
    /\ ~isTyping
    /\ Len(calls) = 2
    /\ calls[1].outcome = "primary"
    /\ calls[2].outcome = "glitch"
    /\ calls[2].primaryRejected

\* C13 - No provider call leaves the session busy forever: every accepted send
\* eventually returns, and whenever the pending flag is set it is eventually
\* cleared, also when a provider never answers.
C13_EventuallyIdle ==
    /\ isTyping ~> ~isTyping
    /\ \A i \in 1..MaxSends :
          (i <= Len(calls)) ~> (i <= Len(calls) /\ calls[i].pc = "done")

\* The text consists of white space only (the empty text included).
AllSpaces(s) == \A k \in 1..Len(s) : s[k] = " "

\* The step is a return of handleSendMessage at one of its checks, or the
\* acceptance of a send.
IsSendStep == lastOp' \in {"send:blank", "send:nokey"} \/ Len(calls') > Len(calls)

\* C14 - A send whose text is empty or consists of white space only changes
\* nothing: the transcript, the provider mode and the pending flag are as before,
\* and no Primary or Backup call is issued.
C14_BlankSendNoOp ==
    [][(AllSpaces(input) /\ IsSendStep) =>
          /\ lastOp' = "send:blank"
          /\ UNCHANGED <<messages, isBackupActive, isTyping, calls, chatClient, input>>]_vars

\* A white-space-only send made while an earlier send is outstanding.
C14_Witness ==
    /\ lastOp = "send:blank"
    /\ input = <<" ">>
    /\ isTyping
    /\ Len(calls) = 1
    /\ Len(messages) = 1

C20_ConstructionFailure ==
    \A i \in 1..Len(calls) :
        ~calls[i].clientAtSend =>
            LET n == Len(calls[i].closure) + 1 IN
            /\ ~calls[i].primaryCalled
            /\ ~calls[i].primaryRejected
            /\ calls[i].backupCalled
            /\ isBackupActive
            /\ Len(calls[i].atBackup) >= n
            /\ calls[i].atBackup[n] = UserEntry(i)
            /\ calls[i].pc \in {"awaitBackup", "done"}
            /\ calls[i].outcome \in {"pending", "backup", "glitch"}
            /\ calls[i].pc = "done" =>
                  /\ Len(TurnEntries(i)) = 2
                  /\ TurnEntries(i)[1] = UserEntry(i)

\* The construction failed in Primary mode, and Backup answered the turn.
C20_Witness ==
    \E i \in 1..Len(calls) :
        /\ ~calls[i].clientAtSend
        /\ ~calls[i].modeAtSend
        /\ calls[i].outcome = "backup"
        /\ calls[i].reply.defined
        /\ ~chatClient

\* The step is an invocation of handleFeedback that follows an invocation with the
\* same index, which named a message.
SecondClick ==
    /\ nFeedback' = nFeedback + 1
    /\ clicks # <<>>
    /\ clicks' # <<>>
    /\ clicks'[1].index = clicks[1].index
    /\ clicks[1].index \in 1..Len(messages)
    /\ Len(messages') = Len(messages)

\* No message holds anything but one of the two values or none.
OneFeedbackValue == \A k \in 1..Len(messages) : messages[k].feedback \in {"none", "up", "down"}

\* C15 (as claimed) - For every Assistant message and every feedback it starts
\* with, handleFeedback(i, v) invoked twice in a row leaves its feedback empty, and
\* handleFeedback(i, v) followed by handleFeedback(i, w), w the other value, leaves
\* it at w; a message never holds both values.
C15_ToggleLaw ==
    /\ []OneFeedbackValue
    /\ [][SecondClick =>
             LET i == clicks[1].index
                 v == clicks[1].type
                 w == clicks'[1].type
             IN  messages'[i].feedback = IF w = v THEN "none" ELSE w]_vars

\* C15 (amended) - handleFeedback(i, v) invoked twice in a row leaves the
\* feedback of an Assistant message empty when it started empty or at the other
\* value, and at v when it started at v (the first invocation clears it, the
\* second sets it again); handleFeedback(i, v) followed by handleFeedback(i, w), w
\* the other value, leaves it at w whatever it started with; a message never
\* holds both values.
C15_ToggleLawAmended ==
    /\ []OneFeedbackValue
    /\ [][SecondClick =>
             LET i == clicks[1].index
                 v == clicks[1].type
                 w == clicks'[1].type
                 start == clicks[1].before
             IN  messages'[i].feedback =
                     IF w # v THEN w
                     ELSE IF start = v THEN v ELSE "none"]_vars

\* Three presses on the buttons of the greeting, the only message: the second
\* cleared what the first had set, and the third, on the same message, has set a
\* value again.
C15_Witness ==
    /\ Len(messages) = 1
    /\ messages[1].role = "model"
    /\ nFeedback = 3
    /\ clicks # <<>>
    /\ clicks[1].index = 1
    /\ clicks[1].type = "up"
    /\ clicks[1].before = "none"
    /\ messages[1].feedback = "up"

\* The step is an invocation of handleFeedback.
ClickStep == nFeedback' = nFeedback + 1 /\ clicks' # <<>>

\* C16 - handleFeedback invoked with an index outside the transcript reports an
\* error to its caller and leaves the transcript unchanged.
C16_IndexOutOfRange ==
    [][(ClickStep /\ clicks'[1].before = "absent") =>
          /\ clicks'[1].threw
          /\ messages' = messages]_vars

\* Only Assistant messages carry feedback.
FeedbackOnAssistantOnly ==
    \A k \in 1..Len(messages) : messages[k].feedback # "none" => messages[k].role = "model"

\* C17 - Every message that carries feedback is an Assistant message, and
\* handleFeedback invoked with the index of a User message sets no feedback on it.
C17_AssistantOnly ==
    /\ []FeedbackOnAssistantOnly
    /\ [][\A k \in 1..Len(messages) :
             (ClickStep /\ clicks'[1].index = k /\ messages[k].role = "user") =>
                 messages'[k].feedback = "none"]_vars

\* C19 - The transcript is append-only: in every step the roles and texts of the
\* previous transcript are a prefix of those of the new one, so no entry is
\* removed, reordered or replaced, and an entry that was there changes in nothing
\* but its feedback.
C19_AppendOnly ==
    [][/\ Len(messages) <= Len(messages')
       /\ \A k \in 1..Len(messages) :
             /\ messages'[k].role = messages[k].role
             /\ messages'[k].text = messages[k].text
             /\ messages'[k].turn = messages[k].turn]_vars

\* The greeting carries feedback, and a whole turn stands after it.
C19_Witness ==
    /\ Len(messages) = 3
    /\ RoleText(messages)[1] = ModelEntry(GreetingText)
    /\ messages[1].feedback = "down"
    /\ messages[2].role = "user"
    /\ messages[3].role = "model"
    /\ messages[3].feedback = "up"
    /\ nFeedback = 2

\* The Primary call of invocation i has resolved with a response that carries no
\* text.
PrimaryMalformed(i) ==
    /\ calls[i].primaryCalled
    /\ ~calls[i].primaryRejected
    /\ calls[i].pc = "done"
    /\ ~calls[i].reply.defined

\* C21 - A Primary response that carries no text is treated as a Primary failure:
\* the mode is Backup, the turn has been given to Backup, and no empty Assistant
\* message has been appended for it.
C21_MalformedIsFailure ==
    \A i \in 1..Len(calls) :
        PrimaryMalformed(i) =>
            /\ isBackupActive
            /\ calls[i].backupCalled
            /\ \A k \in 1..Len(messages) :
                  (messages[k].turn = i /\ messages[k].role = "model") =>
                      messages[k].text # EmptyText

\* C22 - Within one turn the Backup call is issued only in the step in which the
\* Primary call of the turn is seen to reject, or in the send step itself when
\* Primary is skipped (the mode is Backup, or there is no chat session): a turn
\* whose Backup call has been issued has no Primary call outstanding, and a turn
\* issues at most one call to each provider.
C22_SequentialCalls ==
    /\ [](\A i \in 1..Len(calls) :
             /\ calls[i].nPrimary <= 1
             /\ calls[i].nBackup <= 1
             /\ calls[i].primaryCalled <=> calls[i].nPrimary = 1
             /\ calls[i].backupCalled <=> calls[i].nBackup = 1
             /\ calls[i].backupCalled =>
                   /\ calls[i].pc # "awaitPrimary"
                   /\ calls[i].primaryCalled => calls[i].primaryRejected
                   /\ ~calls[i].primaryCalled => (calls[i].modeAtSend \/ ~calls[i].clientAtSend))
    /\ [][\A i \in 1..Len(calls) :
             (~calls[i].backupCalled /\ calls'[i].backupCalled) =>
                 /\ calls[i].pc = "awaitPrimary"
                 /\ ~calls[i].primaryRejected
                 /\ calls'[i].primaryRejected
                 /\ calls'[i].pc = "awaitBackup"]_vars

\* A turn that called Primary, saw it reject, and then called Backup, while
\* another turn went to Backup directly.
C22_Witness ==
    \E i \in 1..Len(calls), j \in 1..Len(calls) :
        /\ calls[i].nPrimary = 1
        /\ calls[i].primaryRejected
        /\ calls[i].nBackup = 1
        /\ calls[i].pc = "done"
        /\ calls[j].nPrimary = 0
        /\ calls[j].nBackup = 1
        /\ calls[j].modeAtSend

\* C23 - A send issued in Backup mode skips Primary entirely: it constructs no
\* Primary chat session and issues no Primary call; a session is constructed by a
\* send only in Primary mode and only when there is none.
C23_LazyConstruction ==
    [][Len(calls') > Len(calls) =>
          /\ isBackupActive =>
                /\ chatClient' = chatClient
                /\ ~calls'[Len(calls')].primaryCalled
          /\ (chatClient' # chatClient) => (~chatClient /\ ~isBackupActive)]_vars

\* C24 - An invocation of handleFeedback(i, v) changes nothing but the feedback of
\* message i: the transcript keeps its length, every message its role and text,
\* every other message its feedback; the provider mode, the pending flag and the
\* chat session are as before, and no provider call is issued or settled.
C24_FeedbackFrame ==
    [][ClickStep =>
          /\ Len(messages') = Len(messages)
          /\ \A k \in 1..Len(messages) :
                /\ messages'[k].role = messages[k].role
                /\ messages'[k].text = messages[k].text
                /\ k # clicks'[1].index => messages'[k].feedback = messages[k].feedback
          /\ UNCHANGED <<isBackupActive, isTyping, calls, chatClient, input, isOpen>>]_vars

\* A press under the reply while the greeting carries feedback of its own.
C24_Witness ==
    /\ Len(messages) = 3
    /\ clicks # <<>>
    /\ clicks[1].index = 3
    /\ clicks[1].type = "down"
    /\ messages[3].role = "model"
    /\ messages[3].feedback = "down"
    /\ messages[1].feedback = "up"
    /\ messages[2].feedback = "none"

\* C25 - Whenever a provider call of the session is outstanding the pending flag
\* is set.
C25_PendingWhileOutstanding == Outstanding # {} => isTyping

\* C26 - Feedback given to an Assistant message while a send is pending is kept,
\* and so is the reply: the step that resolves a send leaves every entry that was
\* there as it was, feedback included, and appends the Assistant reply after all
\* of them; and no step other than an invocation of handleFeedback changes the
\* feedback of an entry.
C26_FeedbackDuringSend ==
    [][/\ \A i \in 1..Len(calls) :
             (calls[i].pc # "done" /\ calls'[i].pc = "done") =>
                 /\ Len(messages') = Len(messages) + 1
                 /\ \A k \in 1..Len(messages) : messages'[k] = messages[k]
                 /\ messages'[Len(messages')].role = "model"
                 /\ messages'[Len(messages')].turn = i
       /\ ~ClickStep =>
             \A k \in 1..Len(messages) :
                 k <= Len(messages') => messages'[k].feedback = messages[k].feedback]_vars

\* The greeting was given feedback while the send was pending; the send has
\* resolved, and the transcript holds the feedback and, last, the reply.
C26_Witness ==
    /\ Len(calls) = 1
    /\ calls[1].outcome = "backup"
    /\ nFeedback = 1
    /\ clicks # <<>>
    /\ clicks[1].index = 1
    /\ clicks[1].before = "none"
    /\ Len(messages) = 3
    /\ RoleText(messages)[1] = ModelEntry(GreetingText)
    /\ messages[1].feedback = "down"
    /\ RoleText(messages)[3] = ModelEntry(TextOf(calls[1].reply))
    /\ messages[3].turn = 1

\* The positions of the transcript that hold the timed greeting.
Greetings(ms) == {k \in 1..Len(ms) : ms[k].turn = 0 /\ ms[k].text = GreetingText}

\* C27 - The timed greeting is put into the transcript only while the chat is
\* closed and the transcript is empty, so it is the first entry and there is at
\* most one; the step that puts it there, like every other step, removes and
\* replaces no entry, a User message appended just before the timer fires
\* included.
C27_GreetingOnlyIntoEmpty ==
    /\ [](Greetings(messages) \subseteq {1})
    /\ [][/\ Greetings(messages') # Greetings(messages) =>
                /\ ~isOpen
                /\ messages = <<>>
                /\ messages' = <<ModelMsg(GreetingText, 0)>>
          /\ Len(messages) <= Len(messages')
          /\ \A k \in 1..Len(messages) :
                /\ messages'[k].role = messages[k].role
                /\ messages'[k].text = messages[k].text]_vars

\* The timer has fired on the closed chat after a send had appended its User
\* message to the empty transcript: the notification is shown, and the User
\* message is still the first entry.
C27_Witness ==
    /\ ~isOpen
    /\ showNotification
    /\ ~timer.armed
    /\ Len(messages) >= 1
    /\ messages[1].role = "user"
    /\ Greetings(messages) = {}

\* The position of the User message of invocation i in the transcript (0: none).
UserPos(i) ==
    LET ks == {k \in 1..Len(messages) : messages[k].turn = i /\ messages[k].role = "user"}
    IN  IF ks = {} THEN 0 ELSE CHOOSE k \in ks : \A l \in ks : k <= l

\* The history a retry session of invocation i is to be created with: the
\* transcript as it was before the User message of i.
SeedFor(i) == RetryHistory(SubSeq(RoleText(messages), 1, UserPos(i) - 1))

\* What an invocation of the single-provider handler has appended, and how often
\* it has called: its User message, and once it has returned one Assistant
\* message (the text of the call that resolved, or the error message of its
\* path); at most two calls, at most one entry into the catch block.
SingleTurn(i) ==
    /\ UserPos(i) > 0
    /\ calls[i].nCalls <= 2
    /\ calls[i].attempts <= 1
    /\ calls[i].nSessions <= 1
    /\ calls[i].pc = "awaitFirst" => calls[i].nCalls = 1 /\ calls[i].attempts = 0
    /\ calls[i].pc \in {"awaitFirst", "awaitRetry"} => TurnEntries(i) = <<UserEntry(i)>>
    /\ calls[i].outcome = "construction" =>
          /\ calls[i].nCalls = 0
          /\ TurnEntries(i) = <<UserEntry(i), ModelEntry(ConnectionFailedText)>>
    /\ calls[i].outcome = "first" =>
          /\ calls[i].nCalls = 1
          /\ TurnEntries(i) = <<UserEntry(i), ModelEntry(TextOf(calls[i].reply))>>
    /\ calls[i].outcome = "retry" =>
          /\ calls[i].nCalls = 2
          /\ TurnEntries(i) = <<UserEntry(i), ModelEntry(TextOf(calls[i].reply))>>
    /\ calls[i].outcome = "glitch" =>
          /\ calls[i].attempts = 1
          /\ TurnEntries(i) = <<UserEntry(i), ModelEntry(SingleGlitchText)>>

\* The step in which an invocation returns clears the typing flag.
SingleReturnClearsTyping ==
    \A i \in 1..Len(calls') :
        (calls'[i].pc = "done" /\ (i > Len(calls) \/ calls[i].pc # "done")) => ~isTyping'

\* C28 (as claimed) - In the single-provider variant a send whose call failed is
\* retried exactly once, on a newly created chat session seeded with the
\* transcript as it was before the User message of the send; if the retry fails
\* too, exactly one error message is appended; and the typing flag is cleared
\* when the send returns, on every path.
C28_RetryExactlyOnce ==
    /\ [](\A i \in 1..Len(calls) :
             /\ SingleTurn(i)
             /\ calls[i].attempts = 1 =>
                   /\ calls[i].nSessions = 1
                   /\ calls[i].nCalls = 2
                   /\ calls[i].seed = SeedFor(i))
    /\ [][SingleReturnClearsTyping]_vars

\* C28 (amended) - In the single-provider variant a send whose call failed
\* creates one new chat session seeded with the transcript as it was before the
\* User message of the send and, if that creation succeeds, calls it once; if the
\* creation or that call fails, exactly one error message is appended and no
\* further call is made; and the typing flag is cleared when the send returns,
\* on every path.
C28_RetryAtMostOnce ==
    /\ [](\A i \in 1..Len(calls) :
             /\ SingleTurn(i)
             /\ calls[i].attempts = 1 =>
                   \/ /\ calls[i].nSessions = 1
                      /\ calls[i].nCalls = 2
                      /\ calls[i].seed = SeedFor(i)
                   \/ /\ calls[i].nSessions = 0
                      /\ calls[i].nCalls = 1
                      /\ calls[i].outcome = "glitch")
    /\ [][SingleReturnClearsTyping]_vars

\* One send answered by the retry, on a session seeded with the greeting; a later
\* one whose retry failed.
C28_Witness ==
    /\ Len(calls) = 2
    /\ calls[1].outcome = "retry"
    /\ calls[1].reply.defined
    /\ calls[1].seed = RetryHistory(<<ModelEntry(GreetingText)>>)
    /\ calls[2].outcome = "glitch"
    /\ calls[2].nCalls = 2
    /\ ~isTyping

\* C29 - Once ThemeProvider has applied the theme, the document has the dark
\* class exactly when the effective theme is dark, whatever setTheme calls and
\* colour-scheme changes have happened; and a colour-scheme change alters the
\* class only while the theme is 'system'.
C29_DarkClassFollowsTheme ==
    /\ [](page.mounted =>
             (page.dark <=> Effective(page.theme, page.prefersDark) = "dark"))
    /\ [][(page.mounted /\ page'.mounted /\ page'.prefersDark # page.prefersDark
             /\ page.theme # "system") => page'.dark = page.dark]_vars

====
